---- MODULE Spec2Model ----
(***************************************************************************)
(* Engagement and notification consistency engine of the YouKo backend     *)
(* (src/app.py).  Every request handler is a sequence of SQL statements    *)
(* run on its own connection inside one PostgreSQL transaction (READ       *)
(* COMMITTED): a statement sees the committed rows plus the transaction's  *)
(* own writes, UPDATE and DELETE lock the rows they touch until the        *)
(* transaction ends, and conn.commit() publishes all writes at once.  An   *)
(* exception leaving the `with db() as conn` block rolls the pending       *)
(* writes back.  One action of the model is one statement (or the Python   *)
(* between two statements) of one handler run by one worker.               *)
(*                                                                         *)
(* The table definitions are not part of the source, so the two schema     *)
(* properties the handlers' behaviour depends on (a UNIQUE(user_id,        *)
(* video_id) constraint on likes, enforced foreign keys) are chosen        *)
(* nondeterministically in Init and never change; what an enforced foreign *)
(* key does to the replies of a deleted comment is chosen when it applies. *)
(***************************************************************************)
EXTENDS Integers, FiniteSets, Sequences, TLC

\* users registered, videos uploaded
NumUsers == 2
NumVideos == 1
\* calls issued in a run: by concurrent workers from the initial state, by two
\* workers racing from a populated state, by a single worker
MaxCalls == 3
PairCalls == 2
SeqCalls == 2

Users == 1..NumUsers
VideoIds == 1..NumVideos
Workers == {"w1", "w2"}

\* session.get('user_id') of a request that carries no session
Anon == 0
\* a video_id that names no row of videos
NoVideo == NumVideos + 1
\* the videos already uploaded: video v belongs to user Owner(v)
Owner(v) == ((v - 1) % NumUsers) + 1

\* data.get('value', 1): 1=like, -1=dislike, 0=remove
Reactions == {1, -1, 0}
\* any other integer a client may send stands for itself
Values == Reactions \cup {2}

VARIABLES
  uniqueLikes,   \* schema: likes has UNIQUE(user_id, video_id),
                 \* comment_likes UNIQUE(user_id, comment_id) and
                 \* subscriptions UNIQUE(user_id, channel_id)
  foreignKeys,   \* schema: video_id / user_id columns are enforced foreign keys
  db,            \* the committed rows of every table
  seq,           \* the id sequence of every table (never rolled back)
  tx,            \* per worker: the uncommitted writes of its open transaction
  pc,            \* per worker: the statement it runs next
  loc,           \* per worker: the request and the handler's local variables
  pre,           \* per worker: the committed rows when its call was issued
  last,          \* the previous completed call (request, outcome, rows before it)
  calls          \* number of calls issued so far

vars == <<uniqueLikes, foreignKeys, db, seq, tx, pc, loc, pre, last, calls>>

-----------------------------------------------------------------------------
(* The store *)

NoRows == [likes |-> {}, videos |-> {}, comments |-> {}, notifications |-> {},
           subscriptions |-> {}, comment_likes |-> {}, history |-> {}]

NoTx == [ins |-> NoRows, del |-> NoRows, upd |-> NoRows]

VideoRow(v, l, d) ==
  [id |-> v, user_id |-> Owner(v), likes_count |-> l, dislikes_count |-> d,
   comments_count |-> 0, views |-> 0]

Ids(rows) == {r.id : r \in rows}

\* what a statement of worker p sees of table t
View(p, t) ==
  {r \in db[t] : r.id \notin tx[p].del[t] \cup Ids(tx[p].upd[t])}
    \cup tx[p].upd[t] \cup tx[p].ins[t]

\* the rows of t that another open transaction has updated or deleted
LockedByOthers(p, t) ==
  UNION {tx[q].del[t] \cup Ids(tx[q].upd[t]) : q \in Workers \ {p}}

TxInsert(p, t, row) == [tx[p] EXCEPT !.ins[t] = @ \cup {row}]

TxDelete(p, t, ids) ==
  [tx[p] EXCEPT !.ins[t] = {r \in @ : r.id \notin ids},
                !.upd[t] = {r \in @ : r.id \notin ids},
                !.del[t] = @ \cup (ids \cap Ids(db[t]))]

TxUpdate(p, t, rows) ==
  [tx[p] EXCEPT
     !.ins[t] = {r \in @ : r.id \notin Ids(rows)}
                  \cup {r \in rows : r.id \in Ids(tx[p].ins[t])},
     !.upd[t] = {r \in @ : r.id \notin Ids(rows)}
                  \cup {r \in rows : r.id \notin Ids(tx[p].ins[t])}]

\* conn.commit(): every pending write becomes visible at once
Committed(p) ==
  [likes |-> View(p, "likes"), videos |-> View(p, "videos"),
   comments |-> View(p, "comments"), notifications |-> View(p, "notifications"),
   subscriptions |-> View(p, "subscriptions"),
   comment_likes |-> View(p, "comment_likes"), history |-> View(p, "history")]

\* the identity of a new row of a table whose id column no statement reads:
\* the smallest one that no committed, pending or awaited row carries
FreshId(t) ==
  LET used == Ids(db[t]) \cup UNION {Ids(tx[q].ins[t]) \cup loc[q].targets : q \in Workers}
  IN CHOOSE i \in 1..(Cardinality(used) + 1) : i \notin used

\* mutants of Dec: the floor left out, the decrement left out
DecUnfloored(x) == x - 1
DecForgotten(x) == x

\* GREATEST(0, x-1)
Dec(x) == IF x - 1 > 0 THEN x - 1 ELSE 0

\* mutant of VideoLockFree: the counter is read and written back without the
\* row lock
VideoNeverLocked(p, vid) == TRUE

\* UPDATE videos ... WHERE id=vid waits for the row lock of another transaction
VideoLockFree(p, vid) == vid \notin LockedByOthers(p, "videos")

\* UPDATE videos SET <F> WHERE id=vid
UpdateVideo(p, vid, F(_)) ==
  TxUpdate(p, "videos", {F(r) : r \in {x \in View(p, "videos") : x.id = vid}})

IdleLoc ==
  [op |-> "none", uid |-> Anon, vid |-> 0, value |-> 0, arg |-> 0,
   existing |-> 0, targets |-> {}, user_liked |-> 0, subscribed |-> FALSE,
   liked |-> FALSE, page |-> {}, unread |-> 0,
   status |-> 0, likes |-> 0, dislikes |-> 0,
   track |-> FALSE, at_commit |-> <<0, 0>>]

NoCall == [op |-> "none", uid |-> Anon, vid |-> 0, value |-> 0, arg |-> 0,
           status |-> 0, subscribed |-> FALSE, pre |-> NoRows]

Request(op, uid, vid, value, arg) ==
  [IdleLoc EXCEPT !.op = op, !.uid = uid, !.vid = vid, !.value = value, !.arg = arg]

\* an exception leaves the `with db() as conn` block: rollback, HTTP 500
Raise(p) ==
  /\ tx' = [tx EXCEPT ![p] = NoTx]
  /\ loc' = [loc EXCEPT ![p].status = 500, ![p].targets = {},
                        ![p].at_commit = <<0, 0>>]
  /\ pc' = [pc EXCEPT ![p] = "done"]

\* a handler that answers callers without a session too starts on a free
\* worker
BeginOpen(p, req, first, budget, keep) ==
  /\ pc[p] \in {"idle", "done"}
  /\ calls < budget
  /\ calls' = calls + 1
  /\ pre' = IF "pre" \in keep THEN [pre EXCEPT ![p] = db] ELSE pre
  /\ last' = IF "last" \in keep /\ pc[p] = "done"
               THEN [op |-> loc[p].op, uid |-> loc[p].uid, vid |-> loc[p].vid,
                     value |-> loc[p].value, arg |-> loc[p].arg,
                     status |-> loc[p].status,
                     subscribed |-> loc[p].subscribed, pre |-> pre[p]]
               ELSE last
  /\ loc' = [loc EXCEPT ![p] = [req EXCEPT !.track = "commit" \in keep]]
  /\ pc' = [pc EXCEPT ![p] = first]
  /\ UNCHANGED <<uniqueLikes, foreignKeys, db, seq, tx>>

\* mutant of Begin: the session check is left out
BeginUnchecked(p, req, first, budget, keep) ==
  BeginOpen(p, req, first, budget, keep)

\* a handler starts on a free worker: the request is read and the session
\* checked (306-308).  budget: the calls of the run; keep: the history the run
\* records, "pre" the committed rows the call starts from, "last" the call the
\* worker has just answered, "commit" the counters the call's commit publishes
Begin(p, req, first, budget, keep) ==
  /\ pc[p] \in {"idle", "done"}
  /\ calls < budget
  /\ calls' = calls + 1
  /\ pre' = IF "pre" \in keep THEN [pre EXCEPT ![p] = db] ELSE pre
  /\ last' = IF "last" \in keep /\ pc[p] = "done"
               THEN [op |-> loc[p].op, uid |-> loc[p].uid, vid |-> loc[p].vid,
                     value |-> loc[p].value, arg |-> loc[p].arg,
                     status |-> loc[p].status,
                     subscribed |-> loc[p].subscribed, pre |-> pre[p]]
               ELSE last
  /\ IF req.uid = Anon
       THEN /\ loc' = [loc EXCEPT ![p] = [req EXCEPT !.status = 401]]
            /\ pc' = [pc EXCEPT ![p] = "done"]
       ELSE /\ loc' = [loc EXCEPT ![p] = [req EXCEPT !.track = "commit" \in keep]]
            /\ pc' = [pc EXCEPT ![p] = first]
  /\ UNCHANGED <<uniqueLikes, foreignKeys, db, seq, tx>>

-----------------------------------------------------------------------------
(* like_video, src/app.py 304-343 *)

LikeKey(p, r) == r.user_id = loc[p].uid /\ r.video_id = loc[p].vid

like_video(p, uid, vid, value, budget, keep) ==
  Begin(p, Request("like_video", uid, vid, value, 0), "like_select", budget, keep)

\* 314-316, 331-332, 339-340
LikeSelect(p) ==
  /\ pc[p] = "like_select"
  /\ LET rows == {r \in View(p, "likes") : LikeKey(p, r)}
         found == IF rows = {} THEN {0} ELSE {r.value : r \in rows}
     IN \E e \in found :
          /\ loc' = [loc EXCEPT ![p].existing = e, ![p].user_liked = 0]
          /\ pc' = [pc EXCEPT ![p] =
                      IF rows # {}
                        THEN IF loc[p].value = 0 \/ e = loc[p].value
                               THEN "like_delete" ELSE "like_update"
                        ELSE IF loc[p].value # 0
                               THEN "like_insert" ELSE "like_commit"]
  /\ UNCHANGED <<uniqueLikes, foreignKeys, db, seq, tx, pre, last, calls>>

\* 317: DELETE FROM likes WHERE user_id, video_id
LikeDelete(p) ==
  /\ pc[p] = "like_delete"
  /\ LET targets == Ids({r \in View(p, "likes") : LikeKey(p, r)})
     IN IF targets \cap LockedByOthers(p, "likes") = {}
          THEN /\ tx' = [tx EXCEPT ![p] = TxDelete(p, "likes", targets)]
               /\ pc' = [pc EXCEPT ![p] = "like_dec"]
               /\ loc' = loc
          ELSE /\ loc' = [loc EXCEPT ![p].targets = targets]
               /\ pc' = [pc EXCEPT ![p] = "like_delete_wait"]
               /\ tx' = tx
  /\ UNCHANGED <<uniqueLikes, foreignKeys, db, seq, pre, last, calls>>

\* 317, blocked on a row lock: once the lock holder has ended, the rows of the
\* statement's snapshot that still exist are deleted
LikeDeleteWait(p) ==
  /\ pc[p] = "like_delete_wait"
  /\ loc[p].targets \cap LockedByOthers(p, "likes") = {}
  /\ tx' = [tx EXCEPT ![p] =
              TxDelete(p, "likes", loc[p].targets \cap Ids(View(p, "likes")))]
  /\ loc' = [loc EXCEPT ![p].targets = {}]
  /\ pc' = [pc EXCEPT ![p] = "like_dec"]
  /\ UNCHANGED <<uniqueLikes, foreignKeys, db, seq, pre, last, calls>>

\* 319-323
LikeDec(p) ==
  /\ pc[p] = "like_dec"
  /\ VideoLockFree(p, loc[p].vid)
  /\ tx' = [tx EXCEPT ![p] =
              IF loc[p].existing = 1
                THEN UpdateVideo(p, loc[p].vid,
                       LAMBDA r : [r EXCEPT !.likes_count = Dec(@)])
                ELSE UpdateVideo(p, loc[p].vid,
                       LAMBDA r : [r EXCEPT !.dislikes_count = Dec(@)])]
  /\ loc' = [loc EXCEPT ![p].user_liked = 0]
  /\ pc' = [pc EXCEPT ![p] = "like_commit"]
  /\ UNCHANGED <<uniqueLikes, foreignKeys, db, seq, pre, last, calls>>

\* 325: UPDATE likes SET value WHERE user_id, video_id
LikeUpdate(p) ==
  /\ pc[p] = "like_update"
  /\ LET rows == {r \in View(p, "likes") : LikeKey(p, r)}
     IN IF Ids(rows) \cap LockedByOthers(p, "likes") = {}
          THEN /\ tx' = [tx EXCEPT ![p] =
                           TxUpdate(p, "likes",
                             {[r EXCEPT !.value = loc[p].value] : r \in rows})]
               /\ pc' = [pc EXCEPT ![p] = "like_swap"]
               /\ loc' = loc
          ELSE /\ loc' = [loc EXCEPT ![p].targets = Ids(rows)]
               /\ pc' = [pc EXCEPT ![p] = "like_update_wait"]
               /\ tx' = tx
  /\ UNCHANGED <<uniqueLikes, foreignKeys, db, seq, pre, last, calls>>

\* 325, blocked on a row lock
LikeUpdateWait(p) ==
  /\ pc[p] = "like_update_wait"
  /\ loc[p].targets \cap LockedByOthers(p, "likes") = {}
  /\ tx' = [tx EXCEPT ![p] =
              TxUpdate(p, "likes",
                {[r EXCEPT !.value = loc[p].value] :
                   r \in {x \in View(p, "likes") : x.id \in loc[p].targets}})]
  /\ loc' = [loc EXCEPT ![p].targets = {}]
  /\ pc' = [pc EXCEPT ![p] = "like_swap"]
  /\ UNCHANGED <<uniqueLikes, foreignKeys, db, seq, pre, last, calls>>

\* 326-330
LikeSwap(p) ==
  /\ pc[p] = "like_swap"
  /\ VideoLockFree(p, loc[p].vid)
  /\ tx' = [tx EXCEPT ![p] =
              IF loc[p].value = 1
                THEN UpdateVideo(p, loc[p].vid,
                       LAMBDA r : [r EXCEPT !.likes_count = @ + 1,
                                            !.dislikes_count = Dec(@)])
                ELSE UpdateVideo(p, loc[p].vid,
                       LAMBDA r : [r EXCEPT !.dislikes_count = @ + 1,
                                            !.likes_count = Dec(@)])]
  /\ loc' = [loc EXCEPT ![p].user_liked = loc[p].value]
  /\ pc' = [pc EXCEPT ![p] = "like_commit"]
  /\ UNCHANGED <<uniqueLikes, foreignKeys, db, seq, pre, last, calls>>

\* the rows another open transaction has inserted, updated or deleted under
\* this call's (user_id, video_id): a unique index makes the INSERT wait for it
LikeKeyBusy(p) ==
  \E q \in Workers \ {p} :
    \/ \E r \in tx[q].ins.likes : LikeKey(p, r)
    \/ \E r \in db.likes : LikeKey(p, r) /\ r.id \in LockedByOthers(p, "likes")

\* the INSERT is rejected: unique violation, or a video that does not exist
LikeInsertRejected(p) ==
  \/ uniqueLikes /\ \E r \in View(p, "likes") : LikeKey(p, r)
  \/ foreignKeys /\ loc[p].vid \notin Ids(View(p, "videos"))

\* 333: INSERT INTO likes (user_id, video_id, value)
LikeInsert(p) ==
  /\ pc[p] = "like_insert"
  /\ uniqueLikes => ~LikeKeyBusy(p)
  /\ IF LikeInsertRejected(p)
       THEN Raise(p)
       ELSE /\ tx' = [tx EXCEPT ![p] =
                        TxInsert(p, "likes",
                          [id |-> FreshId("likes"), user_id |-> loc[p].uid,
                           video_id |-> loc[p].vid, value |-> loc[p].value])]
            /\ pc' = [pc EXCEPT ![p] = "like_inc"]
            /\ loc' = loc
  /\ UNCHANGED <<uniqueLikes, foreignKeys, db, seq, pre, last, calls>>

\* 334-338
LikeInc(p) ==
  /\ pc[p] = "like_inc"
  /\ VideoLockFree(p, loc[p].vid)
  /\ tx' = [tx EXCEPT ![p] =
              IF loc[p].value = 1
                THEN UpdateVideo(p, loc[p].vid,
                       LAMBDA r : [r EXCEPT !.likes_count = @ + 1])
                ELSE UpdateVideo(p, loc[p].vid,
                       LAMBDA r : [r EXCEPT !.dislikes_count = @ + 1])]
  /\ loc' = [loc EXCEPT ![p].user_liked = loc[p].value]
  /\ pc' = [pc EXCEPT ![p] = "like_commit"]
  /\ UNCHANGED <<uniqueLikes, foreignKeys, db, seq, pre, last, calls>>

\* the counters of video vid in the rows d, <<0, 0>> when there is no such row
Counters(d, vid) ==
  LET rows == {r \in d.videos : r.id = vid}
  IN IF rows = {} THEN <<0, 0>>
     ELSE LET v == CHOOSE r \in rows : TRUE
          IN <<v.likes_count, v.dislikes_count>>

\* 341: conn.commit() ends the transaction; at_commit keeps the counters it
\* publishes, in a run that records them, until the handler answers
LikeCommit(p) ==
  /\ pc[p] = "like_commit"
  /\ db' = Committed(p)
  /\ tx' = [tx EXCEPT ![p] = NoTx]
  /\ loc' = [loc EXCEPT ![p].at_commit =
                IF loc[p].track THEN Counters(Committed(p), loc[p].vid) ELSE @]
  /\ pc' = [pc EXCEPT ![p] = "like_read"]
  /\ UNCHANGED <<uniqueLikes, foreignKeys, seq, pre, last, calls>>

\* 342-343: the counters are read back after the commit, by a statement that
\* opens the connection's next transaction; v['likes_count'] of a missing row
\* raises TypeError
LikeRead(p) ==
  /\ pc[p] = "like_read"
  /\ LET rows == {r \in View(p, "videos") : r.id = loc[p].vid}
     IN IF rows = {}
          THEN Raise(p)
          ELSE /\ \E v \in rows :
                    loc' = [loc EXCEPT ![p].status = 200,
                                       ![p].likes = v.likes_count,
                                       ![p].dislikes = v.dislikes_count,
                                       ![p].at_commit = <<0, 0>>]
               /\ pc' = [pc EXCEPT ![p] = "done"]
               /\ tx' = tx
  /\ UNCHANGED <<uniqueLikes, foreignKeys, db, seq, pre, last, calls>>

-----------------------------------------------------------------------------
(* add_comment, src/app.py 379-403 *)

\* parent_id of a top-level comment (SQL NULL)
Null == 0

\* the column default of notifications.read: the recipient has not fetched it
Unread == FALSE

\* the column default of comments.pinned
Unpinned == FALSE

\* 386, 413: the text of a request once stripped, blank or not
Texts == {"", "t"}

\* mutant of OwnerIsOther: the commenter is never compared with the owner
OwnerIsAnyone(p) == loc[p].existing # 0

\* 397: if video and video['user_id'] != uid
OwnerIsOther(p) == loc[p].existing # 0 /\ loc[p].existing # loc[p].uid

\* mutant of CommitOk: the row locks of the transaction outlive its commit
CommitHolding(p) ==
  /\ db' = Committed(p)
  /\ tx' = [tx EXCEPT ![p] = [NoTx EXCEPT !.upd = tx[p].upd]]
  /\ loc' = [loc EXCEPT ![p].status = 200]
  /\ pc' = [pc EXCEPT ![p] = "done"]

\* conn.commit() followed by the success response
CommitOk(p) ==
  /\ db' = Committed(p)
  /\ tx' = [tx EXCEPT ![p] = NoTx]
  /\ loc' = [loc EXCEPT ![p].status = 200]
  /\ pc' = [pc EXCEPT ![p] = "done"]

\* an INSERT INTO comments is rejected: the video or the parent comment it
\* references is not stored
CommentRejected(p, parent) ==
  foreignKeys /\ ( \/ loc[p].vid \notin Ids(View(p, "videos"))
                   \/ parent # Null /\ parent \notin Ids(View(p, "comments")) )

\* INSERT INTO comments ... RETURNING *: the id is drawn from the sequence
\* before the row is checked
InsertComment(p, parent) ==
  /\ seq' = [seq EXCEPT !.comments = @ + 1]
  /\ IF CommentRejected(p, parent)
       THEN Raise(p)
       ELSE /\ tx' = [tx EXCEPT ![p] =
                        TxInsert(p, "comments",
                          [id |-> seq.comments + 1, user_id |-> loc[p].uid,
                           video_id |-> loc[p].vid, parent_id |-> parent,
                           likes_count |-> 0, pinned |-> Unpinned])]
            /\ loc' = loc

add_comment(p, uid, vid, text, budget, keep) ==
  Begin(p, Request("add_comment", uid, vid, Len(text), 0), "comment_insert",
        budget, keep)

\* 386-393
CommentInsert(p) ==
  /\ pc[p] = "comment_insert"
  /\ IF loc[p].value = 0
       THEN /\ loc' = [loc EXCEPT ![p].status = 400]
            /\ pc' = [pc EXCEPT ![p] = "done"]
            /\ UNCHANGED <<seq, tx>>
       ELSE /\ InsertComment(p, Null)
            /\ pc' = [pc EXCEPT ![p] =
                        IF CommentRejected(p, Null) THEN "done" ELSE "comment_count"]
  /\ UNCHANGED <<uniqueLikes, foreignKeys, db, pre, last, calls>>

\* 394
CommentCount(p) ==
  /\ pc[p] = "comment_count"
  /\ VideoLockFree(p, loc[p].vid)
  /\ tx' = [tx EXCEPT ![p] =
              UpdateVideo(p, loc[p].vid,
                LAMBDA r : [r EXCEPT !.comments_count = @ + 1])]
  /\ pc' = [pc EXCEPT ![p] = "comment_owner"]
  /\ UNCHANGED <<uniqueLikes, foreignKeys, db, seq, loc, pre, last, calls>>

\* 396: SELECT user_id FROM videos WHERE id
CommentOwner(p) ==
  /\ pc[p] = "comment_owner"
  /\ LET rows == {r \in View(p, "videos") : r.id = loc[p].vid}
         found == IF rows = {} THEN {0} ELSE {r.user_id : r \in rows}
     IN \E o \in found : loc' = [loc EXCEPT ![p].existing = o]
  /\ pc' = [pc EXCEPT ![p] = "comment_notify"]
  /\ UNCHANGED <<uniqueLikes, foreignKeys, db, seq, tx, pre, last, calls>>

\* 397-401
CommentNotify(p) ==
  /\ pc[p] = "comment_notify"
  /\ tx' = [tx EXCEPT ![p] =
              IF OwnerIsOther(p)
                THEN TxInsert(p, "notifications",
                       [id |-> FreshId("notifications"),
                        user_id |-> loc[p].existing, from_user_id |-> loc[p].uid,
                        type |-> "comment", video_id |-> loc[p].vid,
                        read |-> Unread])
                ELSE tx[p]]
  /\ pc' = [pc EXCEPT ![p] = "comment_commit"]
  /\ UNCHANGED <<uniqueLikes, foreignKeys, db, seq, loc, pre, last, calls>>

\* 402-403
CommentCommit(p) ==
  /\ pc[p] = "comment_commit"
  /\ CommitOk(p)
  /\ UNCHANGED <<uniqueLikes, foreignKeys, seq, pre, last, calls>>

CommentSteps(p) ==
  \/ CommentInsert(p)
  \/ CommentCount(p)
  \/ CommentOwner(p)
  \/ CommentNotify(p)
  \/ CommentCommit(p)

-----------------------------------------------------------------------------
(* reply_comment, src/app.py 405-422 *)

\* 414: data.get('parent_id'), None when the request carries none
reply_comment(p, uid, vid, text, parent_id, budget, keep) ==
  Begin(p, Request("reply_comment", uid, vid, Len(text), parent_id),
        "reply_insert", budget, keep)

\* 415-420
ReplyInsert(p) ==
  /\ pc[p] = "reply_insert"
  /\ IF loc[p].value = 0
       THEN /\ loc' = [loc EXCEPT ![p].status = 400]
            /\ pc' = [pc EXCEPT ![p] = "done"]
            /\ UNCHANGED <<seq, tx>>
       ELSE /\ InsertComment(p, loc[p].arg)
            /\ pc' = [pc EXCEPT ![p] =
                        IF CommentRejected(p, loc[p].arg) THEN "done" ELSE "reply_commit"]
  /\ UNCHANGED <<uniqueLikes, foreignKeys, db, pre, last, calls>>

\* 421-422
ReplyCommit(p) ==
  /\ pc[p] = "reply_commit"
  /\ CommitOk(p)
  /\ UNCHANGED <<uniqueLikes, foreignKeys, seq, pre, last, calls>>

ReplySteps(p) ==
  \/ ReplyInsert(p)
  \/ ReplyCommit(p)

-----------------------------------------------------------------------------
(* delete_comment, src/app.py 443-452 *)

\* what an enforced comments.parent_id does to the replies of a deleted
\* comment: the schema's choice
OnDelete == {"restrict", "cascade", "set_null"}

\* the comments of rows that hang, reply by reply, under the comments ids
RECURSIVE Thread(_, _)
Thread(rows, ids) ==
  LET more == {r.id : r \in {x \in rows : x.parent_id \in ids}}
  IN IF more \subseteq ids THEN ids ELSE Thread(rows, ids \cup more)

\* the DELETE is the first statement of its transaction
DeleteRows(gone, orphans) ==
  [NoTx EXCEPT !.del.comments = gone,
               !.upd.comments = {[r EXCEPT !.parent_id = Null] : r \in orphans}]

delete_comment(p, uid, comment_id, budget, keep) ==
  Begin(p, Request("delete_comment", uid, 0, 0, comment_id), "delete_row",
        budget, keep)

\* 450: DELETE FROM comments WHERE id=%s AND user_id=%s
DeleteCommentRow(p) ==
  /\ pc[p] = "delete_row"
  /\ LET rows == View(p, "comments")
         targets == Ids({r \in rows : r.id = loc[p].arg /\ r.user_id = loc[p].uid})
         replies == {r \in rows : r.parent_id \in targets}
     IN /\ targets \cap LockedByOthers(p, "comments") = {}
        /\ IF foreignKeys /\ replies # {}
             THEN \E rule \in OnDelete :
                    IF rule = "restrict"
                      THEN Raise(p)
                      ELSE /\ tx' = [tx EXCEPT ![p] =
                                       IF rule = "cascade"
                                         THEN DeleteRows(Thread(rows, targets), {})
                                         ELSE DeleteRows(targets, replies)]
                           /\ pc' = [pc EXCEPT ![p] = "delete_commit"]
                           /\ loc' = loc
             ELSE /\ tx' = [tx EXCEPT ![p] = DeleteRows(targets, {})]
                  /\ pc' = [pc EXCEPT ![p] = "delete_commit"]
                  /\ loc' = loc
  /\ UNCHANGED <<uniqueLikes, foreignKeys, db, seq, pre, last, calls>>

\* 451-452
DeleteCommentCommit(p) ==
  /\ pc[p] = "delete_commit"
  /\ CommitOk(p)
  /\ UNCHANGED <<uniqueLikes, foreignKeys, seq, pre, last, calls>>

DeleteCommentSteps(p) ==
  \/ DeleteCommentRow(p)
  \/ DeleteCommentCommit(p)

-----------------------------------------------------------------------------
(* subscribe, src/app.py 473-492 *)

\* mutant of SubKey: the channel is left out of the WHERE clause
SubKeyAnyChannel(p, r) == r.user_id = loc[p].uid

SubKey(p, r) == r.user_id = loc[p].uid /\ r.channel_id = loc[p].arg

subscribe(p, uid, channel_id, budget, keep) ==
  Begin(p, Request("subscribe", uid, 0, 0, channel_id), "sub_select",
        budget, keep)

\* 480-481
SubSelect(p) ==
  /\ pc[p] = "sub_select"
  /\ LET rows == {r \in View(p, "subscriptions") : SubKey(p, r)}
         found == IF rows = {} THEN {0} ELSE Ids(rows)
     IN \E e \in found :
          /\ loc' = [loc EXCEPT ![p].existing = e]
          /\ pc' = [pc EXCEPT ![p] = IF e # 0 THEN "sub_delete" ELSE "sub_insert"]
  /\ UNCHANGED <<uniqueLikes, foreignKeys, db, seq, tx, pre, last, calls>>

\* 482-483
SubDelete(p) ==
  /\ pc[p] = "sub_delete"
  /\ LET targets == Ids({r \in View(p, "subscriptions") : SubKey(p, r)})
     IN /\ targets \cap LockedByOthers(p, "subscriptions") = {}
        /\ tx' = [tx EXCEPT ![p] = TxDelete(p, "subscriptions", targets)]
  /\ loc' = [loc EXCEPT ![p].subscribed = FALSE]
  /\ pc' = [pc EXCEPT ![p] = "sub_commit"]
  /\ UNCHANGED <<uniqueLikes, foreignKeys, db, seq, pre, last, calls>>

\* another open transaction has inserted or holds a row under this call's
\* (user_id, channel_id): a unique index makes the INSERT wait for it
SubKeyBusy(p) ==
  \E q \in Workers \ {p} :
    \/ \E r \in tx[q].ins.subscriptions : SubKey(p, r)
    \/ \E r \in db.subscriptions :
         SubKey(p, r) /\ r.id \in LockedByOthers(p, "subscriptions")

\* the INSERT is rejected: unique violation
SubRejected(p) ==
  uniqueLikes /\ \E r \in View(p, "subscriptions") : SubKey(p, r)

\* 485: INSERT INTO subscriptions (user_id, channel_id)
SubInsert(p) ==
  /\ pc[p] = "sub_insert"
  /\ uniqueLikes => ~SubKeyBusy(p)
  /\ IF SubRejected(p)
       THEN Raise(p)
       ELSE /\ tx' = [tx EXCEPT ![p] =
                        TxInsert(p, "subscriptions",
                          [id |-> FreshId("subscriptions"), user_id |-> loc[p].uid,
                           channel_id |-> loc[p].arg])]
            /\ pc' = [pc EXCEPT ![p] = "sub_notify"]
            /\ loc' = loc
  /\ UNCHANGED <<uniqueLikes, foreignKeys, db, seq, pre, last, calls>>

\* 486-490
SubNotify(p) ==
  /\ pc[p] = "sub_notify"
  /\ tx' = [tx EXCEPT ![p] =
              TxInsert(p, "notifications",
                [id |-> FreshId("notifications"), user_id |-> loc[p].arg,
                 from_user_id |-> loc[p].uid, type |-> "subscribe",
                 video_id |-> Null, read |-> Unread])]
  /\ loc' = [loc EXCEPT ![p].subscribed = TRUE]
  /\ pc' = [pc EXCEPT ![p] = "sub_commit"]
  /\ UNCHANGED <<uniqueLikes, foreignKeys, db, seq, pre, last, calls>>

\* 491-492
SubCommit(p) ==
  /\ pc[p] = "sub_commit"
  /\ CommitOk(p)
  /\ UNCHANGED <<uniqueLikes, foreignKeys, seq, pre, last, calls>>

SubSteps(p) ==
  \/ SubSelect(p)
  \/ SubDelete(p)
  \/ SubInsert(p)
  \/ SubNotify(p)
  \/ SubCommit(p)

-----------------------------------------------------------------------------
(* like_comment, src/app.py 424-441 *)

CommentLikeKey(p, r) == r.user_id = loc[p].uid /\ r.comment_id = loc[p].arg

\* UPDATE comments ... WHERE id=cid waits for the row lock of another
\* transaction
CommentLockFree(p, cid) == cid \notin LockedByOthers(p, "comments")

\* 434: SET likes_count=GREATEST(0,likes_count-1)
CommentLikeDec(r) == [r EXCEPT !.likes_count = Dec(@)]

\* 438: SET likes_count=likes_count+1
CommentLikeInc(r) == [r EXCEPT !.likes_count = @ + 1]

like_comment(p, uid, comment_id, budget, keep) ==
  Begin(p, Request("like_comment", uid, 0, 0, comment_id), "clike_select",
        budget, keep)

\* 431-432
CommentLikeSelect(p) ==
  /\ pc[p] = "clike_select"
  /\ LET rows == {r \in View(p, "comment_likes") : CommentLikeKey(p, r)}
         found == IF rows = {} THEN {0} ELSE Ids(rows)
     IN \E e \in found :
          /\ loc' = [loc EXCEPT ![p].existing = e]
          /\ pc' = [pc EXCEPT ![p] = IF e # 0 THEN "clike_delete" ELSE "clike_insert"]
  /\ UNCHANGED <<uniqueLikes, foreignKeys, db, seq, tx, pre, last, calls>>

\* 433: DELETE FROM comment_likes WHERE user_id, comment_id
CommentLikeDelete(p) ==
  /\ pc[p] = "clike_delete"
  /\ LET targets == Ids({r \in View(p, "comment_likes") : CommentLikeKey(p, r)})
     IN IF targets \cap LockedByOthers(p, "comment_likes") = {}
          THEN /\ tx' = [tx EXCEPT ![p] = TxDelete(p, "comment_likes", targets)]
               /\ pc' = [pc EXCEPT ![p] = "clike_dec"]
               /\ loc' = loc
          ELSE /\ loc' = [loc EXCEPT ![p].targets = targets]
               /\ pc' = [pc EXCEPT ![p] = "clike_delete_wait"]
               /\ tx' = tx
  /\ UNCHANGED <<uniqueLikes, foreignKeys, db, seq, pre, last, calls>>

\* 433, blocked on a row lock: once the lock holder has ended, the rows of the
\* statement's snapshot that still exist are deleted
CommentLikeDeleteWait(p) ==
  /\ pc[p] = "clike_delete_wait"
  /\ loc[p].targets \cap LockedByOthers(p, "comment_likes") = {}
  /\ tx' = [tx EXCEPT ![p] =
              TxDelete(p, "comment_likes",
                       loc[p].targets \cap Ids(View(p, "comment_likes")))]
  /\ loc' = [loc EXCEPT ![p].targets = {}]
  /\ pc' = [pc EXCEPT ![p] = "clike_dec"]
  /\ UNCHANGED <<uniqueLikes, foreignKeys, db, seq, pre, last, calls>>

\* 434-435
CommentLikeDown(p) ==
  /\ pc[p] = "clike_dec"
  /\ CommentLockFree(p, loc[p].arg)
  /\ tx' = [tx EXCEPT ![p] =
              TxUpdate(p, "comments",
                {CommentLikeDec(r) : r \in {x \in View(p, "comments") : x.id = loc[p].arg}})]
  /\ loc' = [loc EXCEPT ![p].liked = FALSE]
  /\ pc' = [pc EXCEPT ![p] = "clike_commit"]
  /\ UNCHANGED <<uniqueLikes, foreignKeys, db, seq, pre, last, calls>>

\* another open transaction has inserted or holds a row under this call's
\* (user_id, comment_id): a unique index makes the INSERT wait for it
CommentLikeKeyBusy(p) ==
  \E q \in Workers \ {p} :
    \/ \E r \in tx[q].ins.comment_likes : CommentLikeKey(p, r)
    \/ \E r \in db.comment_likes :
         CommentLikeKey(p, r) /\ r.id \in LockedByOthers(p, "comment_likes")

\* the INSERT is rejected: unique violation, or a comment that does not exist
CommentLikeRejected(p) ==
  \/ uniqueLikes /\ \E r \in View(p, "comment_likes") : CommentLikeKey(p, r)
  \/ foreignKeys /\ loc[p].arg \notin Ids(View(p, "comments"))

\* 437: INSERT INTO comment_likes (user_id, comment_id)
CommentLikeInsert(p) ==
  /\ pc[p] = "clike_insert"
  /\ uniqueLikes => ~CommentLikeKeyBusy(p)
  /\ IF CommentLikeRejected(p)
       THEN Raise(p)
       ELSE /\ tx' = [tx EXCEPT ![p] =
                        TxInsert(p, "comment_likes",
                          [id |-> FreshId("comment_likes"), user_id |-> loc[p].uid,
                           comment_id |-> loc[p].arg])]
            /\ pc' = [pc EXCEPT ![p] = "clike_inc"]
            /\ loc' = loc
  /\ UNCHANGED <<uniqueLikes, foreignKeys, db, seq, pre, last, calls>>

\* 438-439
CommentLikeUp(p) ==
  /\ pc[p] = "clike_inc"
  /\ CommentLockFree(p, loc[p].arg)
  /\ tx' = [tx EXCEPT ![p] =
              TxUpdate(p, "comments",
                {CommentLikeInc(r) : r \in {x \in View(p, "comments") : x.id = loc[p].arg}})]
  /\ loc' = [loc EXCEPT ![p].liked = TRUE]
  /\ pc' = [pc EXCEPT ![p] = "clike_commit"]
  /\ UNCHANGED <<uniqueLikes, foreignKeys, db, seq, pre, last, calls>>

\* 440-441
CommentLikeCommit(p) ==
  /\ pc[p] = "clike_commit"
  /\ CommitOk(p)
  /\ UNCHANGED <<uniqueLikes, foreignKeys, seq, pre, last, calls>>

CommentLikeSteps(p) ==
  \/ CommentLikeSelect(p)
  \/ CommentLikeDelete(p)
  \/ CommentLikeDown(p)
  \/ CommentLikeInsert(p)
  \/ CommentLikeUp(p)
  \/ CommentLikeCommit(p)

-----------------------------------------------------------------------------
(* notifications, src/app.py 651-670, and me, 139-154 *)

\* 658: LIMIT 50
PageLimit == 50

\* ORDER BY created_at DESC LIMIT k: the k rows created last
Newest(rows, k) == {r \in rows : Cardinality({x \in rows : x.id > r.id}) < k}

\* mutant of MarkedBy: only the rows of the returned page are marked
MarkedByPage(p, r) == r.id \in loc[p].page

\* 668: UPDATE notifications ... WHERE user_id=%s
MarkedBy(p, r) == r.user_id = loc[p].uid

\* mutant of MarkRead: the flag is flipped
MarkToggled(r) == [r EXCEPT !.read = ~@]

\* 668: SET read=TRUE
MarkRead(r) == [r EXCEPT !.read = TRUE]

notifications(p, uid, budget, keep) ==
  BeginOpen(p, Request("notifications", uid, 0, 0, 0), "notif_select", budget, keep)

\* 653-667: without a session the answer is an empty list
NotifSelect(p) ==
  /\ pc[p] = "notif_select"
  /\ IF loc[p].uid = Anon
       THEN /\ loc' = [loc EXCEPT ![p].status = 200]
            /\ pc' = [pc EXCEPT ![p] = "done"]
       ELSE /\ loc' = [loc EXCEPT ![p].page =
                         Ids(Newest({r \in View(p, "notifications") :
                                       r.user_id = loc[p].uid}, PageLimit))]
            /\ pc' = [pc EXCEPT ![p] = "notif_mark"]
  /\ UNCHANGED <<uniqueLikes, foreignKeys, db, seq, tx, pre, last, calls>>

\* 668: UPDATE notifications SET read=TRUE WHERE user_id
NotifMark(p) ==
  /\ pc[p] = "notif_mark"
  /\ LET rows == {r \in View(p, "notifications") : MarkedBy(p, r)}
     IN IF Ids(rows) \cap LockedByOthers(p, "notifications") = {}
          THEN /\ tx' = [tx EXCEPT ![p] =
                           TxUpdate(p, "notifications",
                                    {MarkRead(r) : r \in rows})]
               /\ pc' = [pc EXCEPT ![p] = "notif_commit"]
               /\ loc' = loc
          ELSE /\ loc' = [loc EXCEPT ![p].targets = Ids(rows)]
               /\ pc' = [pc EXCEPT ![p] = "notif_mark_wait"]
               /\ tx' = tx
  /\ UNCHANGED <<uniqueLikes, foreignKeys, db, seq, pre, last, calls>>

\* 668, blocked on a row lock
NotifMarkWait(p) ==
  /\ pc[p] = "notif_mark_wait"
  /\ loc[p].targets \cap LockedByOthers(p, "notifications") = {}
  /\ tx' = [tx EXCEPT ![p] =
              TxUpdate(p, "notifications",
                {MarkRead(r) :
                   r \in {x \in View(p, "notifications") : x.id \in loc[p].targets}})]
  /\ loc' = [loc EXCEPT ![p].targets = {}]
  /\ pc' = [pc EXCEPT ![p] = "notif_commit"]
  /\ UNCHANGED <<uniqueLikes, foreignKeys, db, seq, pre, last, calls>>

\* 669-670
NotifCommit(p) ==
  /\ pc[p] = "notif_commit"
  /\ CommitOk(p)
  /\ UNCHANGED <<uniqueLikes, foreignKeys, seq, pre, last, calls>>

NotifSteps(p) ==
  \/ NotifSelect(p)
  \/ NotifMark(p)
  \/ NotifCommit(p)

me(p, uid, budget, keep) ==
  BeginOpen(p, Request("me", uid, 0, 0, 0), "me_unread", budget, keep)

\* 141-154: the session's user is looked up and its unread notifications
\* counted; every id of Users is a stored user
MeUnread(p) ==
  /\ pc[p] = "me_unread"
  /\ loc' = [loc EXCEPT
               ![p].status = 200,
               ![p].unread =
                  IF loc[p].uid \in Users
                    THEN Cardinality({r \in View(p, "notifications") :
                                        r.user_id = loc[p].uid /\ r.read = FALSE})
                    ELSE 0]
  /\ pc' = [pc EXCEPT ![p] = "done"]
  /\ UNCHANGED <<uniqueLikes, foreignKeys, db, seq, tx, pre, last, calls>>

-----------------------------------------------------------------------------
(* add_view, src/app.py 288-302 *)

HistoryKey(p, r) == r.user_id = loc[p].uid /\ r.video_id = loc[p].vid

add_view(p, uid, vid, budget, keep) ==
  BeginOpen(p, Request("add_view", uid, vid, 0, 0), "view_update", budget, keep)

\* 291-294: a request without video_id is answered at once
ViewUpdate(p) ==
  /\ pc[p] = "view_update"
  /\ IF loc[p].vid = 0
       THEN /\ loc' = [loc EXCEPT ![p].status = 200]
            /\ pc' = [pc EXCEPT ![p] = "done"]
            /\ tx' = tx
       ELSE /\ VideoLockFree(p, loc[p].vid)
            /\ tx' = [tx EXCEPT ![p] =
                        UpdateVideo(p, loc[p].vid,
                          LAMBDA r : [r EXCEPT !.views = @ + 1])]
            /\ pc' = [pc EXCEPT ![p] =
                        IF loc[p].uid = Anon THEN "view_commit" ELSE "view_history"]
            /\ loc' = loc
  /\ UNCHANGED <<uniqueLikes, foreignKeys, db, seq, pre, last, calls>>

\* another open transaction has inserted or holds the row of this call's
\* (user_id, video_id): the unique index ON CONFLICT names makes the statement
\* wait for it
HistoryKeyBusy(p) ==
  \E q \in Workers \ {p} :
    \/ \E r \in tx[q].ins.history : HistoryKey(p, r)
    \/ \E r \in db.history : HistoryKey(p, r) /\ r.id \in LockedByOthers(p, "history")

\* 296-300: INSERT INTO history ... ON CONFLICT (user_id,video_id) DO UPDATE SET
\* watched_at=NOW(); the time is the number of calls issued so far
ViewHistory(p) ==
  /\ pc[p] = "view_history"
  /\ ~HistoryKeyBusy(p)
  /\ LET rows == {r \in View(p, "history") : HistoryKey(p, r)}
     IN IF foreignKeys /\ loc[p].vid \notin Ids(View(p, "videos"))
          THEN Raise(p)
          ELSE /\ tx' = [tx EXCEPT ![p] =
                           IF rows = {}
                             THEN TxInsert(p, "history",
                                    [id |-> FreshId("history"), user_id |-> loc[p].uid,
                                     video_id |-> loc[p].vid, watched_at |-> calls])
                             ELSE TxUpdate(p, "history",
                                    {[r EXCEPT !.watched_at = calls] : r \in rows})]
               /\ pc' = [pc EXCEPT ![p] = "view_commit"]
               /\ loc' = loc
  /\ UNCHANGED <<uniqueLikes, foreignKeys, db, seq, pre, last, calls>>

\* 301-302
ViewCommit(p) ==
  /\ pc[p] = "view_commit"
  /\ CommitOk(p)
  /\ UNCHANGED <<uniqueLikes, foreignKeys, seq, pre, last, calls>>

ViewSteps(p) ==
  \/ ViewUpdate(p)
  \/ ViewHistory(p)
  \/ ViewCommit(p)

-----------------------------------------------------------------------------
(* pin_comment, src/app.py 454-469 *)

\* mutant of PinAllowed: any signed-in user may pin on an existing video
PinAllowedAnyone(p) == loc[p].existing # 0

\* 464: not (not video or video['user_id'] != uid)
PinAllowed(p) == loc[p].existing # 0 /\ loc[p].existing = loc[p].uid

pin_comment(p, uid, comment_id, budget, keep) ==
  Begin(p, Request("pin_comment", uid, 0, 0, comment_id), "pin_select",
        budget, keep)

\* 460-462: SELECT * FROM comments WHERE id; 404 when there is none
PinSelect(p) ==
  /\ pc[p] = "pin_select"
  /\ LET rows == {r \in View(p, "comments") : r.id = loc[p].arg}
     IN IF rows = {}
          THEN /\ loc' = [loc EXCEPT ![p].status = 404]
               /\ pc' = [pc EXCEPT ![p] = "done"]
          ELSE /\ \E c \in rows : loc' = [loc EXCEPT ![p].vid = c.video_id]
               /\ pc' = [pc EXCEPT ![p] = "pin_owner"]
  /\ UNCHANGED <<uniqueLikes, foreignKeys, db, seq, tx, pre, last, calls>>

\* 463: SELECT user_id FROM videos WHERE id=c['video_id']
PinOwner(p) ==
  /\ pc[p] = "pin_owner"
  /\ LET rows == {r \in View(p, "videos") : r.id = loc[p].vid}
         found == IF rows = {} THEN {0} ELSE {r.user_id : r \in rows}
     IN \E o \in found : loc' = [loc EXCEPT ![p].existing = o]
  /\ pc' = [pc EXCEPT ![p] = "pin_update"]
  /\ UNCHANGED <<uniqueLikes, foreignKeys, db, seq, tx, pre, last, calls>>

\* 464-466: 403 unless the caller owns the video, else
\* UPDATE comments SET pinned=NOT pinned WHERE id
PinUpdate(p) ==
  /\ pc[p] = "pin_update"
  /\ IF PinAllowed(p)
       THEN /\ CommentLockFree(p, loc[p].arg)
            /\ tx' = [tx EXCEPT ![p] =
                        TxUpdate(p, "comments",
                          {[r EXCEPT !.pinned = ~@] :
                             r \in {x \in View(p, "comments") : x.id = loc[p].arg}})]
            /\ pc' = [pc EXCEPT ![p] = "pin_commit"]
            /\ loc' = loc
       ELSE /\ loc' = [loc EXCEPT ![p].status = 403]
            /\ pc' = [pc EXCEPT ![p] = "done"]
            /\ tx' = tx
  /\ UNCHANGED <<uniqueLikes, foreignKeys, db, seq, pre, last, calls>>

\* 467-469
PinCommit(p) ==
  /\ pc[p] = "pin_commit"
  /\ CommitOk(p)
  /\ UNCHANGED <<uniqueLikes, foreignKeys, seq, pre, last, calls>>

PinSteps(p) ==
  \/ PinSelect(p)
  \/ PinOwner(p)
  \/ PinUpdate(p)
  \/ PinCommit(p)

-----------------------------------------------------------------------------
(* Specifications *)

InitDb == [NoRows EXCEPT !.videos = {VideoRow(v, 0, 0) : v \in VideoIds}]

InitSeq == [comments |-> 0]

InitRest ==
  /\ seq = InitSeq
  /\ tx = [p \in Workers |-> NoTx]
  /\ pc = [p \in Workers |-> "idle"]
  /\ loc = [p \in Workers |-> IdleLoc]
  /\ pre = [p \in Workers |-> NoRows]
  /\ last = NoCall
  /\ calls = 0

\* The state after the videos have been uploaded: no reaction, counters 0.
\* Requests of the concurrent specifications name existing users and videos
\* only, which no foreign key rejects: foreignKeys is fixed there.
Init ==
  /\ uniqueLikes \in BOOLEAN
  /\ foreignKeys = FALSE
  /\ db = InitDb
  /\ InitRest

LikeSteps(p) ==
  \/ LikeSelect(p)
  \/ LikeDelete(p)
  \/ LikeDec(p)
  \/ LikeUpdate(p)
  \/ LikeSwap(p)
  \/ LikeInsert(p)
  \/ LikeInc(p)
  \/ LikeCommit(p)
  \/ LikeRead(p)

\* two workers serve like_video requests of any users concurrently
Next ==
  \E p \in Workers :
    \/ \E uid \in Users, vid \in VideoIds, value \in Values :
         like_video(p, uid, vid, value, MaxCalls, {})
    \/ LikeSteps(p)
    \/ LikeDeleteWait(p)
    \/ LikeUpdateWait(p)

Spec == Init /\ [][Next]_vars

\* The reactions and counters of video 1 as earlier calls may have left them:
\* at most one reaction per user, l likes and d dislikes counted.
LedgerDb(a, l, d) ==
  [NoRows EXCEPT
     !.likes = {[id |-> u, user_id |-> u, video_id |-> 1, value |-> a[u]] :
                  u \in {x \in Users : a[x] # 0}},
     !.videos = {VideoRow(v, IF v = 1 THEN l ELSE 0, IF v = 1 THEN d ELSE 0) :
                   v \in VideoIds}]

Holding(a, x) == Cardinality({u \in Users : a[u] = x})

\* a state sequential calls lead to: the counters agree with the ledger
InitPair ==
  /\ uniqueLikes \in BOOLEAN
  /\ foreignKeys = FALSE
  /\ \E a \in [Users -> {0, 1, -1}] :
       db = LedgerDb(a, Holding(a, 1), Holding(a, -1))
  /\ InitRest

\* two workers race on like_video requests of any users
NextPair ==
  \E p \in Workers :
    \/ \E uid \in Users, vid \in VideoIds, value \in Reactions :
         like_video(p, uid, vid, value, PairCalls, {"pre"})
    \/ LikeSteps(p)
    \/ LikeDeleteWait(p)
    \/ LikeUpdateWait(p)

SpecPair == InitPair /\ [][NextPair]_vars

\* a user whose call a worker is serving
InFlight(u) == \E q \in Workers : pc[q] \notin {"idle", "done"} /\ loc[q].uid = u

\* A user whose calls follow one another inserts a reaction only when none is
\* stored: no insert meets a duplicate key, and uniqueLikes is fixed.
InitDistinct ==
  /\ uniqueLikes = FALSE
  /\ foreignKeys = FALSE
  /\ \E a \in [Users -> {0, 1, -1}] :
       db = LedgerDb(a, Holding(a, 1), Holding(a, -1))
  /\ InitRest

\* two workers race on like_video requests on video 1, which carries the
\* reactions of LedgerDb; every user issues its calls one after another
NextDistinct ==
  \E p \in Workers :
    \/ \E uid \in {u \in Users : ~InFlight(u)}, value \in Reactions :
         like_video(p, uid, 1, value, PairCalls, {})
    \/ LikeSteps(p)

SpecDistinct == InitDistinct /\ [][NextDistinct]_vars

\* the same calls, the counters each commit publishes recorded
NextCounts ==
  \E p \in Workers :
    \/ \E uid \in {u \in Users : ~InFlight(u)}, value \in Reactions :
         like_video(p, uid, 1, value, PairCalls, {"commit"})
    \/ LikeSteps(p)

SpecCounts == InitDistinct /\ [][NextCounts]_vars

\* A state concurrent calls of one user lead to (SpecPair reaches them): a
\* counter may have drifted from the ledger, here to 0 or 1.  A single worker
\* never meets a duplicate key or, naming existing rows only, a foreign key violation: both
\* schema properties are fixed.
InitReact ==
  /\ uniqueLikes = FALSE
  /\ foreignKeys = FALSE
  /\ \E a \in [Users -> {0, 1, -1}], l \in {0, 1}, d \in {0, 1} :
       db = LedgerDb(a, l, d)
  /\ InitRest

\* one worker serves the like_video requests of signed-in users on existing
\* videos one after another
NextReact ==
  \/ \E uid \in Users, vid \in VideoIds, value \in Reactions :
       like_video("w1", uid, vid, value, SeqCalls, {"pre", "last"})
  \/ LikeSteps("w1")

SpecReact == InitReact /\ [][NextReact]_vars

\* any request at all: no session, a video that does not exist
InitAny ==
  /\ uniqueLikes = FALSE
  /\ foreignKeys \in BOOLEAN
  /\ \E a \in [Users -> {0, 1, -1}] :
       db = LedgerDb(a, Holding(a, 1), Holding(a, -1))
  /\ InitRest

NextAny ==
  \/ \E uid \in Users \cup {Anon}, vid \in VideoIds \cup {NoVideo}, value \in Values :
       like_video("w1", uid, vid, value, SeqCalls, {"pre"})
  \/ LikeSteps("w1")

SpecAny == InitAny /\ [][NextAny]_vars

\* the ids the comments sequence may have issued in a run
CommentIds == 1..SeqCalls

\* The state after the videos have been uploaded: no comment, no subscription,
\* no notification.
InitComment ==
  /\ uniqueLikes = FALSE
  /\ foreignKeys \in BOOLEAN
  /\ db = InitDb
  /\ InitRest

\* one worker serves comment and subscription requests one after another
NextComment ==
  \/ \E uid \in Users \cup {Anon}, vid \in VideoIds \cup {NoVideo}, text \in Texts :
       add_comment("w1", uid, vid, text, SeqCalls, {"pre"})
  \/ \E uid \in Users, vid \in VideoIds, text \in Texts,
        parent_id \in {Null} \cup CommentIds :
       reply_comment("w1", uid, vid, text, parent_id, SeqCalls, {"pre"})
  \/ \E uid \in Users, comment_id \in CommentIds :
       delete_comment("w1", uid, comment_id, SeqCalls, {"pre"})
  \/ \E uid \in Users, channel_id \in Users :
       subscribe("w1", uid, channel_id, SeqCalls, {"pre"})
  \/ CommentSteps("w1")
  \/ ReplySteps("w1")
  \/ DeleteCommentSteps("w1")
  \/ SubSteps("w1")

SpecComment == InitComment /\ [][NextComment]_vars

\* The subscriptions earlier subscribe calls have left: one row for every
\* pair of m.  Their notifications have been fetched and are not kept.
SubRows(m) ==
  {[id |-> (k[1] - 1) * NumUsers + k[2], user_id |-> k[1], channel_id |-> k[2]] :
     k \in m}

InitSub ==
  /\ uniqueLikes = FALSE
  /\ foreignKeys = FALSE
  /\ \E m \in SUBSET (Users \X Users) :
       db = [InitDb EXCEPT !.subscriptions = SubRows(m)]
  /\ InitRest

\* one worker serves subscribe requests one after another
NextSub ==
  \/ \E uid \in Users, channel_id \in Users :
       subscribe("w1", uid, channel_id, SeqCalls, {"pre", "last"})
  \/ SubSteps("w1")

SpecSub == InitSub /\ [][NextSub]_vars

\* the subscriptions earlier calls have left, on a store with or without the
\* unique key
InitSubPair ==
  /\ uniqueLikes \in BOOLEAN
  /\ foreignKeys = FALSE
  /\ \E m \in SUBSET (Users \X Users) :
       db = [InitDb EXCEPT !.subscriptions = SubRows(m)]
  /\ InitRest

\* two workers race on subscribe requests of any users
NextSubPair ==
  \E p \in Workers :
    \/ \E uid \in Users, channel_id \in Users :
         subscribe(p, uid, channel_id, PairCalls, {"pre"})
    \/ SubSteps(p)

SpecSubPair == InitSubPair /\ [][NextSubPair]_vars

\* a comment as add_comment stores it, with the likes and the pin it has got
CommentRow(id, uid, vid, parent, likes, pinned) ==
  [id |-> id, user_id |-> uid, video_id |-> vid, parent_id |-> parent,
   likes_count |-> likes, pinned |-> pinned]

\* The state after user 1 has commented on video 1 and the users of m have
\* liked the comment one after another.
LikedDb(m) ==
  [InitDb EXCEPT
     !.videos = {[r EXCEPT !.comments_count = 1] : r \in @},
     !.comments = {CommentRow(1, 1, 1, Null, Cardinality(m), Unpinned)},
     !.comment_likes = {[id |-> u, user_id |-> u, comment_id |-> 1] : u \in m}]

InitCommentLike ==
  /\ uniqueLikes \in BOOLEAN
  /\ foreignKeys = FALSE
  /\ seq = [comments |-> 1]
  /\ \E m \in SUBSET Users : db = LikedDb(m)
  /\ tx = [p \in Workers |-> NoTx]
  /\ pc = [p \in Workers |-> "idle"]
  /\ loc = [p \in Workers |-> IdleLoc]
  /\ pre = [p \in Workers |-> NoRows]
  /\ last = NoCall
  /\ calls = 0

Quiet == \A q \in Workers : pc[q] \in {"idle", "done"}

\* two workers race on the first PairCalls like_comment requests; once they
\* have answered, one worker serves SeqCalls more, one after another
NextCommentLike ==
  \/ \E uid \in Users :
       /\ calls < PairCalls
       /\ like_comment("w2", uid, 1, PairCalls, {})
  \/ \E uid \in Users :
       /\ calls >= PairCalls => Quiet
       /\ like_comment("w1", uid, 1, PairCalls + SeqCalls, {"pre", "last"})
  \/ \E p \in Workers : CommentLikeSteps(p)
  \/ \E p \in Workers : CommentLikeDeleteWait(p)

SpecCommentLike == InitCommentLike /\ [][NextCommentLike]_vars

\* how many notifications a user has received, around the page limit
Inboxes == {0, 1, PageLimit, PageLimit + 1}

\* The notifications earlier comments of the other users have left: n[u] for
\* user u, the r[u] oldest of them fetched before (capped at n[u]).
InboxRows(n, r) ==
  {[id |-> (i - 1) * NumUsers + u, user_id |-> u,
    from_user_id |-> (u % NumUsers) + 1, type |-> "comment", video_id |-> 1,
    read |-> (i <= r[u])] : u \in Users, i \in 1..(PageLimit + 1)}

InitNotif ==
  /\ uniqueLikes = FALSE
  /\ foreignKeys = FALSE
  /\ \E n \in [Users -> Inboxes], r \in [Users -> {0, 1}] :
       db = [InitDb EXCEPT
               !.notifications = {x \in InboxRows(n, r) :
                                    (x.id - x.user_id) \div NumUsers < n[x.user_id]}]
  /\ InitRest

\* one worker serves notifications and me requests one after another
NextNotif ==
  \/ \E uid \in Users \cup {Anon} :
       notifications("w1", uid, SeqCalls, {"pre", "last"})
  \/ \E uid \in Users \cup {Anon} :
       me("w1", uid, SeqCalls, {"pre", "last"})
  \/ NotifSteps("w1")
  \/ MeUnread("w1")

SpecNotif == InitNotif /\ [][NextNotif]_vars

\* The state after the last user has commented on video 1, whose owner has not
\* fetched the notification yet.
InboxDb ==
  [InitDb EXCEPT
     !.videos = {[r EXCEPT !.comments_count = IF r.id = 1 THEN 1 ELSE 0] : r \in @},
     !.comments = {CommentRow(1, NumUsers, 1, Null, 0, Unpinned)},
     !.notifications = {[id |-> 1, user_id |-> Owner(1), from_user_id |-> NumUsers,
                         type |-> "comment", video_id |-> 1, read |-> Unread]}]

InitInbox ==
  /\ uniqueLikes = FALSE
  /\ foreignKeys = FALSE
  /\ seq = [comments |-> 1]
  /\ db = InboxDb
  /\ tx = [p \in Workers |-> NoTx]
  /\ pc = [p \in Workers |-> "idle"]
  /\ loc = [p \in Workers |-> IdleLoc]
  /\ pre = [p \in Workers |-> NoRows]
  /\ last = NoCall
  /\ calls = 0

\* two workers serve notifications, add_comment and subscribe requests of any
\* users concurrently
NextInbox ==
  \E p \in Workers :
    \/ \E uid \in Users : notifications(p, uid, PairCalls, {})
    \/ \E uid \in Users, vid \in VideoIds : add_comment(p, uid, vid, "t", PairCalls, {})
    \/ \E uid \in Users, channel_id \in Users : subscribe(p, uid, channel_id, PairCalls, {})
    \/ NotifSteps(p)
    \/ NotifMarkWait(p)
    \/ CommentSteps(p)
    \/ SubSteps(p)

SpecInbox == InitInbox /\ [][NextInbox]_vars

\* two workers serve the requests that write or read notifications, and the
\* reaction, comment like and pin requests, concurrently
NextFlags ==
  \E p \in Workers :
    \/ \E uid \in Users : notifications(p, uid, PairCalls, {})
    \/ \E uid \in Users : me(p, uid, PairCalls, {})
    \/ \E uid \in Users, vid \in VideoIds : add_comment(p, uid, vid, "t", PairCalls, {})
    \/ \E uid \in Users, channel_id \in Users : subscribe(p, uid, channel_id, PairCalls, {})
    \/ \E uid \in Users, value \in {1, -1} : like_video(p, uid, 1, value, PairCalls, {})
    \/ \E uid \in Users : like_comment(p, uid, 1, PairCalls, {})
    \/ \E uid \in Users : pin_comment(p, uid, 1, PairCalls, {})
    \/ NotifSteps(p)
    \/ NotifMarkWait(p)
    \/ MeUnread(p)
    \/ CommentSteps(p)
    \/ SubSteps(p)
    \/ LikeSteps(p)
    \/ CommentLikeSteps(p)
    \/ PinSteps(p)

SpecFlags == InitInbox /\ [][NextFlags]_vars

\* The state after user 1 has commented on video 1, liked the comment and
\* liked the video, and the last user has disliked the video.
LiveDb ==
  [LikedDb({1}) EXCEPT
     !.likes = {[id |-> 1, user_id |-> 1, video_id |-> 1, value |-> 1],
                [id |-> 2, user_id |-> NumUsers, video_id |-> 1, value |-> -1]},
     !.videos = {[r EXCEPT !.likes_count = IF r.id = 1 THEN 1 ELSE 0,
                           !.dislikes_count = IF r.id = 1 THEN 1 ELSE 0] : r \in @}]

\* a store with or without the unique keys
InitLive ==
  /\ uniqueLikes \in BOOLEAN
  /\ foreignKeys = FALSE
  /\ seq = [comments |-> 1]
  /\ db = LiveDb
  /\ tx = [p \in Workers |-> NoTx]
  /\ pc = [p \in Workers |-> "idle"]
  /\ loc = [p \in Workers |-> IdleLoc]
  /\ pre = [p \in Workers |-> NoRows]
  /\ last = NoCall
  /\ calls = 0

\* the statements of the calls a worker may be serving
LiveSteps(p) ==
  \/ LikeSteps(p)
  \/ LikeDeleteWait(p)
  \/ LikeUpdateWait(p)
  \/ CommentSteps(p)
  \/ CommentLikeSteps(p)
  \/ CommentLikeDeleteWait(p)
  \/ SubSteps(p)
  \/ ViewSteps(p)

\* two workers serve like_video, add_comment, like_comment, subscribe and
\* add_view requests of any users on video 1, its comment and its owner's
\* channel concurrently
NextLive ==
  \E p \in Workers :
    \/ \E uid \in Users : like_video(p, uid, 1, 1, PairCalls, {})
    \/ \E uid \in Users : add_comment(p, uid, 1, "t", PairCalls, {})
    \/ \E uid \in Users : like_comment(p, uid, 1, PairCalls, {})
    \/ \E uid \in Users : subscribe(p, uid, Owner(1), PairCalls, {})
    \/ \E uid \in Users : add_view(p, uid, 1, PairCalls, {})
    \/ LiveSteps(p)

\* every request is served by a thread of its own on a connection of its own:
\* a statement that can run, runs
SpecLive ==
  InitLive /\ [][NextLive]_vars /\ \A p \in Workers : WF_vars(LiveSteps(p))

\* two workers serve the add_view requests of signed-in and anonymous callers
\* on the uploaded videos concurrently
NextView ==
  \E p \in Workers :
    \/ \E uid \in Users \cup {Anon}, vid \in VideoIds :
         add_view(p, uid, vid, MaxCalls, {})
    \/ ViewSteps(p)

SpecView == Init /\ [][NextView]_vars

\* The state after comments have been posted and none pinned: on video 1
\* comment 1 by the last user, comment 2 a reply to it by user 1 and comment 3
\* by user 1, and, on a store that does not enforce foreign keys, comment 4 on a
\* video that does not exist.
ThreadDb(fk) ==
  [InitDb EXCEPT
     !.videos = {[r EXCEPT !.comments_count = IF r.id = 1 THEN 2 ELSE 0] : r \in @},
     !.comments = {CommentRow(1, NumUsers, 1, Null, 0, Unpinned),
                   CommentRow(2, 1, 1, 1, 0, Unpinned),
                   CommentRow(3, 1, 1, Null, 0, Unpinned)}
                  \cup (IF fk THEN {} ELSE {CommentRow(4, 1, NoVideo, Null, 0, Unpinned)})]

InitPin ==
  /\ uniqueLikes = FALSE
  /\ foreignKeys \in BOOLEAN
  /\ seq = [comments |-> 4]
  /\ db = ThreadDb(foreignKeys)
  /\ tx = [p \in Workers |-> NoTx]
  /\ pc = [p \in Workers |-> "idle"]
  /\ loc = [p \in Workers |-> IdleLoc]
  /\ pre = [p \in Workers |-> NoRows]
  /\ last = NoCall
  /\ calls = 0

\* the comments of ThreadDb and one id that names no comment
PinTargets == 1..5

\* one worker serves the pin_comment requests of signed-in users one after
\* another
NextPin ==
  \/ \E uid \in Users, comment_id \in PinTargets :
       pin_comment("w1", uid, comment_id, SeqCalls, {"pre"})
  \/ PinSteps("w1")

SpecPin == InitPin /\ [][NextPin]_vars

\* one worker serves reply_comment and pin_comment requests on the comments of
\* ThreadDb, and on the replies posted meanwhile, one after another
NextReplyPin ==
  \/ \E uid \in Users, vid \in VideoIds, parent_id \in {Null} \cup PinTargets :
       reply_comment("w1", uid, vid, "t", parent_id, SeqCalls, {})
  \/ \E uid \in Users, comment_id \in PinTargets :
       pin_comment("w1", uid, comment_id, SeqCalls, {})
  \/ ReplySteps("w1")
  \/ PinSteps("w1")

SpecReplyPin == InitPin /\ [][NextReplyPin]_vars

\* one worker serves, one after another, the requests of signed-in callers and
\* of callers without a session to every handler that requires one
NextSession ==
  \/ \E uid \in Users \cup {Anon}, vid \in VideoIds, value \in {1, -1} :
       like_video("w1", uid, vid, value, SeqCalls, {"pre"})
  \/ \E uid \in Users \cup {Anon}, vid \in VideoIds :
       add_comment("w1", uid, vid, "t", SeqCalls, {"pre"})
  \/ \E uid \in Users \cup {Anon}, vid \in VideoIds :
       reply_comment("w1", uid, vid, "t", 1, SeqCalls, {"pre"})
  \/ \E uid \in Users \cup {Anon} :
       like_comment("w1", uid, 1, SeqCalls, {"pre"})
  \/ \E uid \in Users \cup {Anon}, comment_id \in {2, 3} :
       delete_comment("w1", uid, comment_id, SeqCalls, {"pre"})
  \/ \E uid \in Users \cup {Anon}, comment_id \in {1, 3} :
       pin_comment("w1", uid, comment_id, SeqCalls, {"pre"})
  \/ \E uid \in Users \cup {Anon}, channel_id \in Users :
       subscribe("w1", uid, channel_id, SeqCalls, {"pre"})
  \/ LikeSteps("w1")
  \/ CommentSteps("w1")
  \/ ReplySteps("w1")
  \/ CommentLikeSteps("w1")
  \/ DeleteCommentSteps("w1")
  \/ PinSteps("w1")
  \/ SubSteps("w1")

SpecSession == InitPin /\ [][NextSession]_vars

\* one worker serves comment posts, replies and deletions on the comments of
\* ThreadDb one after another
NextThread ==
  \/ \E uid \in Users, vid \in VideoIds :
       add_comment("w1", uid, vid, "t", SeqCalls, {"pre"})
  \/ \E uid \in Users, vid \in VideoIds, parent_id \in {Null} \cup PinTargets :
       reply_comment("w1", uid, vid, "t", parent_id, SeqCalls, {"pre"})
  \/ \E uid \in Users, comment_id \in PinTargets :
       delete_comment("w1", uid, comment_id, SeqCalls, {"pre"})
  \/ CommentSteps("w1")
  \/ ReplySteps("w1")
  \/ DeleteCommentSteps("w1")

SpecThread == InitPin /\ [][NextThread]_vars

-----------------------------------------------------------------------------
(* The transition table of SetReaction (spec 4.1), stated on its own *)

KeyRows(d, u, v) == {r \in d.likes : r.user_id = u /\ r.video_id = v}

\* the reaction of u on v in the rows d: 0 when there is none
Reaction(d, u, v) ==
  IF KeyRows(d, u, v) = {} THEN 0 ELSE (CHOOSE r \in KeyRows(d, u, v) : TRUE).value

Video(d, v) == CHOOSE r \in d.videos : r.id = v

Abstract(d, u, v) ==
  [r |-> Reaction(d, u, v), l |-> Video(d, v).likes_count,
   d |-> Video(d, v).dislikes_count]

SatSub(n) == IF n = 0 THEN 0 ELSE n - 1

TableReaction(cur, want) ==
  IF cur = 0 THEN want ELSE IF want = 0 \/ want = cur THEN 0 ELSE want

TableCount(which, cur, want, n) ==
  LET new == TableReaction(cur, want)
  IN IF cur # which /\ new = which THEN n + 1
     ELSE IF cur = which /\ new # which THEN SatSub(n)
     ELSE n

After(st, want) ==
  [r |-> TableReaction(st.r, want), l |-> TableCount(1, st.r, want, st.l),
   d |-> TableCount(-1, st.r, want, st.d)]

Committing == {"idle", "like_read", "done"}

-----------------------------------------------------------------------------
(* Claims *)

C2_SameUserSerializable ==
  ( /\ uniqueLikes
    /\ pc["w1"] = "done" /\ pc["w2"] = "done"
    /\ loc["w1"].op = "like_video" /\ loc["w2"].op = "like_video"
    /\ loc["w1"].status = 200 /\ loc["w2"].status = 200
    /\ loc["w1"].uid = loc["w2"].uid /\ loc["w1"].vid = loc["w2"].vid
    /\ pre["w1"] = pre["w2"] ) =>
    LET u == loc["w1"].uid
        v == loc["w1"].vid
        s0 == Abstract(pre["w1"], u, v)
        a == loc["w1"].value
        b == loc["w2"].value
    IN /\ Cardinality(KeyRows(db, u, v)) <= 1
       /\ Abstract(db, u, v) \in {After(After(s0, a), b), After(After(s0, b), a)}

\* the counters of v agree with the ledger d
Agrees(d, v) ==
  /\ Video(d, v).likes_count =
       Cardinality({u \in Users : \E r \in KeyRows(d, u, v) : r.value = 1})
  /\ Video(d, v).dislikes_count =
       Cardinality({u \in Users : \E r \in KeyRows(d, u, v) : r.value = -1})

\* C3 as claimed: whatever reaction u has on v, two consecutive
\* like_video(u, v, like) calls leave no reaction row of u on v and likes_count
\* at its value before the first call.  Stated for the case most favourable to
\* the claim: the counters agreed with the ledger before the first call.
C3_ToggleOffAnyState ==
  ( /\ pc["w1"] = "done" /\ loc["w1"].op = "like_video" /\ loc["w1"].value = 1
    /\ last.op = "like_video" /\ last.value = 1
    /\ last.uid = loc["w1"].uid /\ last.vid = loc["w1"].vid
    /\ Agrees(last.pre, last.vid) ) =>
    /\ KeyRows(db, loc["w1"].uid, loc["w1"].vid) = {}
    /\ Video(db, loc["w1"].vid).likes_count = Video(last.pre, last.vid).likes_count

\* C3 as amended: when u's reaction on v is not like (none or dislike), two
\* consecutive like_video(u, v, like) calls leave no reaction row of u on v and
\* likes_count at its value before the first call; when it is like, the first
\* call removes it and the second stores it again.
C3_ToggleOff ==
  ( /\ pc["w1"] = "done" /\ loc["w1"].op = "like_video" /\ loc["w1"].value = 1
    /\ last.op = "like_video" /\ last.value = 1
    /\ last.uid = loc["w1"].uid /\ last.vid = loc["w1"].vid ) =>
    LET u == loc["w1"].uid
        v == loc["w1"].vid
    IN IF Reaction(last.pre, u, v) # 1
         THEN /\ KeyRows(db, u, v) = {}
              /\ Video(db, v).likes_count = Video(last.pre, v).likes_count
         ELSE /\ Cardinality(KeyRows(db, u, v)) = 1
              /\ Reaction(db, u, v) = 1

\* a user who disliked the video has sent like twice
C3_Witness ==
  /\ pc["w1"] = "done" /\ loc["w1"].op = "like_video" /\ loc["w1"].value = 1
  /\ loc["w1"].status = 200
  /\ last.op = "like_video" /\ last.value = 1
  /\ last.uid = loc["w1"].uid /\ last.vid = loc["w1"].vid
  /\ Reaction(last.pre, last.uid, last.vid) = -1
  /\ Video(last.pre, last.vid).likes_count > 0

\* C4: in every reachable state, also of interleaved calls and of counters that
\* have drifted from the ledger, likes_count and dislikes_count of every video
\* (committed, or written and not yet committed) are at least 0.
C4_CountersNonNegative ==
  \A v \in db.videos \cup UNION {tx[p].upd.videos : p \in Workers} :
    v.likes_count >= 0 /\ v.dislikes_count >= 0

\* a call that removes a like has decremented a likes_count that was 0 already
C4_Witness ==
  \E p \in Workers :
    /\ pc[p] = "like_commit" /\ loc[p].existing = 1 /\ loc[p].value \in {0, 1}
    /\ tx[p].upd.videos # {}
    /\ Video(db, loc[p].vid).likes_count = 0

\* C5: a single like_video call with a desired value among like, dislike, none
\* on a current reaction among none, like, dislike makes the ledger change, the
\* counter changes (subtractions floored at 0) and returns the user_liked of
\* the transition table, and changes nothing else.
C5_TransitionTable ==
  ( /\ pc["w1"] = "done" /\ loc["w1"].op = "like_video"
    /\ loc["w1"].value \in Reactions
    /\ Reaction(pre["w1"], loc["w1"].uid, loc["w1"].vid) \in {0, 1, -1} ) =>
    LET u == loc["w1"].uid
        v == loc["w1"].vid
        s0 == Abstract(pre["w1"], u, v)
        s1 == After(s0, loc["w1"].value)
    IN /\ loc["w1"].status = 200
       /\ loc["w1"].user_liked = s1.r
       /\ Cardinality(KeyRows(db, u, v)) = (IF s1.r = 0 THEN 0 ELSE 1)
       /\ Abstract(db, u, v) = s1
       /\ db.likes \ KeyRows(db, u, v) = pre["w1"].likes \ KeyRows(pre["w1"], u, v)
       /\ {x \in db.videos : x.id # v} = {x \in pre["w1"].videos : x.id # v}
       /\ Video(db, v).comments_count = Video(pre["w1"], v).comments_count
       /\ db.comments = pre["w1"].comments
       /\ db.notifications = pre["w1"].notifications
       /\ db.subscriptions = pre["w1"].subscriptions

\* like -> dislike on a video whose likes_count had drifted to 0: the
\* subtraction is floored
C5_Witness ==
  /\ pc["w1"] = "done" /\ loc["w1"].op = "like_video" /\ loc["w1"].value = -1
  /\ Reaction(pre["w1"], loc["w1"].uid, loc["w1"].vid) = 1
  /\ Video(pre["w1"], loc["w1"].vid).likes_count = 0
  /\ loc["w1"].status = 200

\* the stored top-level comments of video v
TopLevel(d, v) == {c \in d.comments : c.video_id = v /\ c.parent_id = Null}

\* C6: whenever no call is in progress, after any sequence of add_comment,
\* reply_comment and delete_comment calls, the comments_count of every video
\* equals the number of its stored top-level comments (parent_id null).
C6_CountMatchesTopLevel ==
  (\A p \in Workers : pc[p] \in {"idle", "done"}) =>
    \A v \in VideoIds : Video(db, v).comments_count = Cardinality(TopLevel(db, v))

\* C7: a successful comment post, by add_comment or by reply_comment, raises
\* the video's comments_count by exactly 1 when the comment it stores has no
\* parent, and leaves it unchanged when the comment has a parent.
C7_PostCountsTopLevelOnly ==
  ( /\ pc["w1"] = "done"
    /\ loc["w1"].op \in {"add_comment", "reply_comment"}
    /\ loc["w1"].status = 200
    /\ loc["w1"].vid \in VideoIds ) =>
    LET v == loc["w1"].vid
        posted == db.comments \ pre["w1"].comments
        delta == Video(db, v).comments_count - Video(pre["w1"], v).comments_count
    IN /\ posted # {}
       /\ \A c \in posted : delta = IF c.parent_id = Null THEN 1 ELSE 0

\* C8: an operation that returns a failure has persisted none of its writes:
\* the committed rows and counters are those of before the call.
C8_FailureLeavesNoWrite ==
  \A p \in Workers :
    (pc[p] = "done" /\ loc[p].status \notin {0, 200}) => db = pre[p]

\* C9: in every reachable state, after any sequence of add_comment and
\* subscribe calls by any users on any videos and channels, no stored
\* notification has its recipient (user_id) equal to its originating user
\* (from_user_id).
C9_NoSelfNotification ==
  \A n \in db.notifications : n.user_id # n.from_user_id

\* one step of the worker, seen from the committed rows
C10_Step ==
  LET u == loc["w1"].uid
      v == loc["w1"].vid
      answers == pc["w1"] # "done" /\ pc'["w1"] = "done" /\ loc'["w1"].status = 200
      comments == db'.comments \ db.comments
      notes == db'.notifications \ db.notifications
  IN /\ (loc["w1"].op = "add_comment" /\ v \in VideoIds /\ answers) =>
          /\ \E c \in comments :
               /\ comments = {c}
               /\ c.user_id = u /\ c.video_id = v /\ c.parent_id = Null
          /\ Video(db', v).comments_count = Video(db, v).comments_count + 1
          /\ IF Video(db, v).user_id # u
               THEN \E n \in notes :
                      /\ notes = {n}
                      /\ n.user_id = Video(db, v).user_id /\ n.from_user_id = u
                      /\ n.type = "comment" /\ n.video_id = v /\ ~n.read
               ELSE notes = {}
     /\ (loc["w1"].op = "add_comment" /\ ~answers) => db' = db
     /\ (loc["w1"].op = "reply_comment") => notes = {}

\* C10: a successful add_comment by a user who is not the video's owner
\* publishes, in the one step that commits its transaction, the top-level
\* comment row, the comments_count increment and exactly one unread
\* notification of type comment addressed to the owner; no other step of the
\* call changes the stored rows; the owner's own comment and any reply_comment
\* store no notification.
C10_CommentNotification == [][C10_Step]_vars

C10_Witness ==
  /\ pc["w1"] = "done"
  /\ loc["w1"].op = "add_comment"
  /\ loc["w1"].status = 200
  /\ loc["w1"].vid \in VideoIds
  /\ Video(db, loc["w1"].vid).user_id # loc["w1"].uid
  /\ \E n \in db.notifications \ pre["w1"].notifications :
       n.type = "comment" /\ n.user_id = Video(db, loc["w1"].vid).user_id
  /\ Cardinality(db.comments) = Cardinality(pre["w1"].comments) + 1

\* the subscription rows of subscriber u to channel c
SubRowsOf(d, u, c) == {r \in d.subscriptions : r.user_id = u /\ r.channel_id = c}

\* the subscribe notifications addressed to c
SubNotes(d, c) == {n \in d.notifications : n.type = "subscribe" /\ n.user_id = c}

\* C11: for a user u not subscribed to channel c, two consecutive
\* subscribe(u, c) calls leave no subscription row for (u, c); the first call
\* returns subscribed=true and creates exactly one subscribe notification for
\* c, the second returns subscribed=false and creates no notification.
C11_SubscribeTwice ==
  ( /\ pc["w1"] = "done" /\ loc["w1"].op = "subscribe"
    /\ last.op = "subscribe"
    /\ last.uid = loc["w1"].uid /\ last.arg = loc["w1"].arg
    /\ SubRowsOf(last.pre, last.uid, last.arg) = {} ) =>
    LET u == last.uid
        c == last.arg
        first == pre["w1"].notifications \ last.pre.notifications
    IN /\ last.status = 200 /\ last.subscribed
       /\ Cardinality(SubRowsOf(pre["w1"], u, c)) = 1
       /\ \E n \in first :
            /\ first = {n}
            /\ n.type = "subscribe" /\ n.user_id = c /\ n.from_user_id = u
       /\ loc["w1"].status = 200 /\ ~loc["w1"].subscribed
       /\ SubRowsOf(db, u, c) = {}
       /\ db.notifications = pre["w1"].notifications
       /\ db.subscriptions = last.pre.subscriptions

\* u, subscribed to another channel, has toggled its subscription to c twice
C11_Witness ==
  /\ pc["w1"] = "done" /\ loc["w1"].op = "subscribe"
  /\ last.op = "subscribe"
  /\ last.uid = loc["w1"].uid /\ last.arg = loc["w1"].arg
  /\ SubRowsOf(last.pre, last.uid, last.arg) = {}
  /\ \E r \in last.pre.subscriptions : r.user_id = last.uid
  /\ SubNotes(db, last.arg) # {}

\* C12: subscribe(u, c) with c equal to u fails with InvalidInput and creates
\* neither a subscription row nor a notification; no reachable state holds a
\* subscription whose subscriber equals its channel.
C12_NoSelfSubscription ==
  /\ \A r \in db.subscriptions : r.user_id # r.channel_id
  /\ \A p \in Workers :
       (pc[p] = "done" /\ loc[p].op = "subscribe" /\ loc[p].arg = loc[p].uid) =>
         loc[p].status = 400 /\ db = pre[p]

\* the like records of user u on comment c
CommentLikes(d, u, c) == {r \in d.comment_likes : r.user_id = u /\ r.comment_id = c}

Comment(d, c) == CHOOSE r \in d.comments : r.id = c

\* C13: two consecutive like_comment(u, c) calls with no other call on c in
\* between leave the (u, c) like record present or absent as before the first
\* call and c's likes_count at its value before the first call.  Stated for
\* the two calls a worker serves after every other call has answered, on a
\* store with unique like keys.
C13_CommentLikeTwice ==
  ( /\ uniqueLikes
    /\ calls = PairCalls + SeqCalls
    /\ pc["w1"] = "done" /\ loc["w1"].op = "like_comment" /\ loc["w1"].status = 200
    /\ last.op = "like_comment" /\ last.status = 200
    /\ last.uid = loc["w1"].uid /\ last.arg = loc["w1"].arg ) =>
    LET u == last.uid
        c == last.arg
    IN /\ (CommentLikes(db, u, c) = {}) <=> (CommentLikes(last.pre, u, c) = {})
       /\ Comment(db, c).likes_count = Comment(last.pre, c).likes_count

\* the notifications addressed to u
Inbox(d, u) == {n \in d.notifications : n.user_id = u}

\* C14: once notifications(u) has completed, with no notification created
\* meanwhile, every notification addressed to u has read=true, those beyond the
\* returned page of 50 included, and the read flags of the other users'
\* notifications are as before; me, called next for u, reports 0 unread.
C14_ListMarksAllRead ==
  /\ ( pc["w1"] = "done" /\ loc["w1"].op = "notifications"
       /\ loc["w1"].uid # Anon ) =>
       /\ loc["w1"].status = 200
       /\ Ids(db.notifications) = Ids(pre["w1"].notifications)
       /\ \A n \in Inbox(db, loc["w1"].uid) : n.read
       /\ db.notifications \ Inbox(db, loc["w1"].uid)
            = pre["w1"].notifications \ Inbox(pre["w1"], loc["w1"].uid)
  /\ ( pc["w1"] = "done" /\ loc["w1"].op = "me" /\ loc["w1"].uid # Anon
       /\ last.op = "notifications" /\ last.uid = loc["w1"].uid ) =>
       loc["w1"].unread = 0

\* a user with more notifications than a page holds, unread ones beyond the
\* page among them, has fetched its list and then asked me
C14_Witness ==
  /\ pc["w1"] = "done" /\ loc["w1"].op = "me" /\ loc["w1"].unread = 0
  /\ last.op = "notifications" /\ last.uid = loc["w1"].uid
  /\ Cardinality(Inbox(last.pre, last.uid)) > PageLimit
  /\ \E n \in Inbox(last.pre, last.uid) :
       /\ ~n.read
       /\ n \notin Newest(Inbox(last.pre, last.uid), PageLimit)
  /\ \E n \in db.notifications : ~n.read

\* the (user, video) pairs that have a history row
Watched(d) == {<<r.user_id, r.video_id>> : r \in d.history}

RECURSIVE ViewsOf(_, _)
ViewsOf(d, vs) ==
  IF vs = {} THEN 0
  ELSE LET v == CHOOSE x \in vs : TRUE
       IN Video(d, v).views + ViewsOf(d, vs \ {v})

\* one step of the workers, seen from the committed rows
C15_Step ==
  /\ \A p \in Workers :
       (pc[p] = "view_commit" /\ pc'[p] = "done") =>
         /\ Video(db', loc[p].vid).views = Video(db, loc[p].vid).views + 1
         /\ \A v \in VideoIds \ {loc[p].vid} : Video(db', v).views = Video(db, v).views
         /\ Watched(db') = Watched(db) \cup
              (IF loc[p].uid = Anon THEN {} ELSE {<<loc[p].uid, loc[p].vid>>})
  /\ (\A p \in Workers : ~(pc[p] = "view_commit" /\ pc'[p] = "done")) =>
       /\ Watched(db') = Watched(db)
       /\ \A v \in VideoIds : Video(db', v).views = Video(db, v).views
  /\ Cardinality(db'.history) = Cardinality(Watched(db'))
  /\ (\A p \in Workers : pc'[p] \in {"idle", "done"}) =>
       ViewsOf(db', VideoIds) = calls'

\* C15: every add_view call on an existing video, sequential or concurrent,
\* anonymous or signed in, adds exactly 1 to the video's views when it commits
\* and nothing changes them otherwise, so N calls add N; the history table holds
\* one row for (user, video) once that user has called, never two, and no row
\* is added for an anonymous caller.
C15_ViewsAndHistory == [][C15_Step]_vars

\* a call waits for the video's row lock that a call of the same user holds,
\* after an earlier view has been counted
C15_Witness ==
  /\ pc["w1"] = "view_commit" /\ pc["w2"] = "view_update"
  /\ loc["w1"].vid = loc["w2"].vid
  /\ loc["w1"].uid = loc["w2"].uid /\ loc["w1"].uid # Anon
  /\ Video(db, loc["w1"].vid).views = 1
  /\ <<loc["w1"].uid, loc["w1"].vid>> \in Watched(db)

\* C16: pin_comment changes a pinned flag only when the comment exists and the
\* caller owns the comment's video; then it flips that comment's flag and no
\* other; for an absent comment it fails with NotFound (404) and for any other
\* caller with Forbidden (403), leaving every pinned flag, and every row, as it
\* was.
C16_PinByOwnerOnly ==
  (pc["w1"] = "done" /\ loc["w1"].op = "pin_comment" /\ loc["w1"].uid # Anon) =>
    LET was == pre["w1"]
        cs == {c \in was.comments : c.id = loc["w1"].arg}
    IN IF cs = {}
         THEN loc["w1"].status = 404 /\ db = was
         ELSE LET c == CHOOSE x \in cs : TRUE
                  owned == \E v \in was.videos :
                             v.id = c.video_id /\ v.user_id = loc["w1"].uid
              IN IF owned
                   THEN /\ loc["w1"].status = 200
                        /\ db = [was EXCEPT !.comments =
                                   (@ \ {c}) \cup {[c EXCEPT !.pinned = ~c.pinned]}]
                   ELSE loc["w1"].status = 403 /\ db = was

\* the owner of video 1 has pinned a comment and unpinned it again
C16_Witness ==
  /\ pc["w1"] = "done" /\ loc["w1"].op = "pin_comment" /\ loc["w1"].status = 200
  /\ \E c \in pre["w1"].comments : c.id = loc["w1"].arg /\ c.pinned
  /\ \A c \in db.comments : ~c.pinned

\* C19: after any sequence of pin_comment calls by a video's owner on that
\* video's comments, at most one comment of the video has pinned=true.  Stated
\* for the top-level comments alone.
C19_OnePinPerVideo ==
  \A v \in VideoIds :
    Cardinality({c \in TopLevel(db, v) : c.pinned}) <= 1

SessionOps ==
  {"like_video", "add_comment", "reply_comment", "like_comment",
   "delete_comment", "pin_comment", "subscribe"}

\* C17: called without an authenticated user, each of like_video, add_comment,
\* reply_comment, like_comment, delete_comment, pin_comment and subscribe
\* fails with Unauthenticated (401) at once and leaves every row and every
\* counter as it was.
C17_Unauthenticated ==
  (loc["w1"].op \in SessionOps /\ loc["w1"].uid = Anon) =>
    /\ pc["w1"] = "done"
    /\ loc["w1"].status = 401
    /\ db = pre["w1"]
    /\ tx["w1"] = NoTx

\* a caller without a session has been turned away after a signed-in caller
\* has changed the stored rows
C17_Witness ==
  /\ loc["w1"].op \in SessionOps /\ loc["w1"].uid = Anon
  /\ loc["w1"].status = 401
  /\ db # ThreadDb(foreignKeys)

\* C18: in every reachable state, also during and after concurrent like_video
\* calls of one user, the likes ledger holds at most one reaction row for each
\* (user, video) pair.
C18_OneReactionPerKey ==
  \A u \in Users, v \in VideoIds : Cardinality(KeyRows(db, u, v)) <= 1

\* C20: after any sequence of add_comment, reply_comment and delete_comment
\* calls, every stored comment whose parent_id is set refers to a stored
\* comment of the same video that is itself top-level: replies are one level
\* deep.  Stated for a store that enforces its foreign keys.
C20_ReplyDepthOne ==
  foreignKeys =>
    \A c \in db.comments :
      c.parent_id # Null =>
        \E q \in db.comments :
          q.id = c.parent_id /\ q.video_id = c.video_id /\ q.parent_id = Null

\* one step of the workers: a like_video call answers
C21_Step ==
  \A p \in Workers :
    ( /\ pc[p] = "like_read" /\ pc'[p] = "done"
      /\ loc[p].track /\ loc'[p].status = 200 ) =>
      <<loc'[p].likes, loc'[p].dislikes>> = loc[p].at_commit

\* C21: the likes and dislikes a like_video call returns are the counters of
\* the video as the call's own commit published them: they include the call's
\* delta and exclude the effect of every other user's like_video call that
\* commits after this call's commit.
C21_ReturnedCounters == [][C21_Step]_vars

\* C22: two subscribe(u, c) calls issued concurrently by one user while no
\* (u, c) subscription exists end as the two calls run one after the other
\* end: both answer, the first has created the subscription and one subscribe
\* notification for c, the second has removed the subscription; at no time
\* is there more than one (u, c) row or more than one new notification.
C22_ConcurrentSubscribe ==
  /\ \A u \in Users, c \in Users : Cardinality(SubRowsOf(db, u, c)) <= 1
  /\ ( /\ pc["w1"] = "done" /\ pc["w2"] = "done"
       /\ loc["w1"].op = "subscribe" /\ loc["w2"].op = "subscribe"
       /\ loc["w1"].uid = loc["w2"].uid /\ loc["w1"].arg = loc["w2"].arg
       /\ pre["w1"] = pre["w2"]
       /\ SubRowsOf(pre["w1"], loc["w1"].uid, loc["w1"].arg) = {} ) =>
       LET u == loc["w1"].uid
           c == loc["w1"].arg
       IN /\ Cardinality(SubNotes(db, c) \ SubNotes(pre["w1"], c)) <= 1
          /\ loc["w1"].status = 200 /\ loc["w2"].status = 200
          /\ loc["w1"].subscribed # loc["w2"].subscribed
          /\ SubRowsOf(db, u, c) = {}

\* one step of the workers: a notifications call marks.  A page shorter than
\* PageLimit holds every notification the caller had when it was fetched.
C23_Step ==
  \A p \in Workers :
    ( /\ pc[p] \in {"notif_mark", "notif_mark_wait"} /\ pc'[p] = "notif_commit"
      /\ Cardinality(loc[p].page) < PageLimit ) =>
      Ids(tx'[p].upd.notifications) \subseteq loc[p].page

\* C23: notifications(u) fetches its page and marks as one atomic step: every
\* notification the call sets to read=true existed when the call fetched its
\* page; one created for u by a concurrent add_comment or subscribe between the
\* fetch and the mark is not marked read by that call.
C23_FetchAndMarkAtomic == [][C23_Step]_vars

\* C24: in every reachable state, after any sequence of reply_comment and
\* pin_comment calls, no comment whose parent_id is set has pinned=true.
C24_RepliesNeverPinned ==
  \A c \in db.comments : c.parent_id # Null => ~c.pinned

\* one step of the workers, seen from the committed and the pending rows
C25_Step ==
  LET born == {n \in db'.notifications : n.id \notin Ids(db.notifications)}
  IN /\ \A n \in db.notifications : n.read =>
          \E m \in db'.notifications : m.id = n.id /\ m.read
     /\ \A n \in born : ~n.read
     /\ born # {} =>
          \E p \in Workers :
            /\ loc[p].op \in {"add_comment", "subscribe"}
            /\ pc[p] \in {"comment_commit", "sub_commit"} /\ pc'[p] = "done"
     /\ \A p \in Workers : \A n \in tx'[p].ins.notifications : ~n.read

\* C25: the read flag of a notification is monotone: no step of add_comment,
\* subscribe, notifications, me, like_video, like_comment or pin_comment takes
\* a stored notification from read=true to read=false or removes it, and a
\* notification is created only by add_comment or subscribe, with read=false.
C25_ReadMonotone == [][C25_Step]_vars

\* the stored notification has been fetched and stays read while a
\* notification created after the fetch is unread
C25_Witness ==
  /\ \E n \in db.notifications : n.id \in Ids(InboxDb.notifications) /\ n.read
  /\ \E n \in db.notifications : n.id \notin Ids(InboxDb.notifications) /\ ~n.read
  /\ \A p \in Workers : pc[p] = "done"

\* worker p holds the lock of a counter row: a video or a comment it has
\* updated
HoldsCounter(p) == tx[p].upd.videos # {} \/ tx[p].upd.comments # {}

InCall(p) == pc[p] \notin {"idle", "done"}

\* C26: under fair scheduling every like_video, add_comment, like_comment,
\* subscribe and add_view call eventually answers, committed or failed,
\* whatever calls run beside it; a call that holds the lock of a counter row
\* never waits for another call, so no calls wait for each other.
C26_CallsTerminate ==
  /\ [](\A p \in Workers : (InCall(p) /\ HoldsCounter(p)) => ENABLED LiveSteps(p))
  /\ \A p \in Workers : InCall(p) ~> (pc[p] = "done")

\* a like_video call that has deleted its reaction row waits for the video's
\* row lock, which a call of another user holds
C26_Witness ==
  \E p \in Workers, q \in Workers :
    /\ pc[p] = "like_dec" /\ ~VideoLockFree(p, loc[p].vid)
    /\ tx[p].del.likes # {}
    /\ InCall(q) /\ loc[q].uid # loc[p].uid /\ tx[q].upd.videos # {}

====
